---------------------------- MODULE Spec2Model ----------------------------
(***************************************************************************)
(* Model of src/main.py (class SnakeGame): the game state, the main loop   *)
(* of run() split at its three positions (event dispatch, simulation       *)
(* update, redraw), food spawning, the high-score file and the speed rule. *)
(* Particles and all drawing that does not touch game state are left out.  *)
(***************************************************************************)
EXTENDS Integers, Sequences, FiniteSets, TLC

(***************************************************************************)
(* Bounds of the model.                                                    *)
(***************************************************************************)
\* grid_width = width // cell_size and grid_height = height // cell_size are
\* constructor parameters (40 x 30 in main()); the model explores a small grid.
GridWidth == 4
GridHeight == 2
\* Number of iterations of the main loop explored in one process run.
MaxFrames == 6
\* How long a game may already have been paused in the initial states of
\* SpecExpiry (frames of countdown already elapsed is the lifetime minus this).
MaxRemaining == 3
\* Largest score fed to the speed rule in SpecFps.
MaxFpsScore == 1100
\* Largest high score saved and read back in SpecRoundTrip.
MaxSavedScore == 130

(***************************************************************************)
(* Program constants.                                                      *)
(***************************************************************************)
SPECIAL_FOOD_LIFETIME == 150
FOOD_POINTS == 10
SPECIAL_POINTS == 50
BASE_FPS == 10
MAX_FPS == 20
FPS_SCORE_STEP == 50

\* Python's None; every position is a pair, so the empty tuple is distinct.
None == <<>>

Min(a, b) == IF a < b THEN a ELSE b

Range(s) == {s[i] : i \in 1..Len(s)}

Cells == (0..(GridWidth - 1)) \X (0..(GridHeight - 1))

(***************************************************************************)
(* Direction and GameState enumerations.                                   *)
(***************************************************************************)
Directions == {"UP", "DOWN", "LEFT", "RIGHT"}

DirectionValue(d) ==
    CASE d = "UP" -> <<0, -1>>
      [] d = "DOWN" -> <<0, 1>>
      [] d = "LEFT" -> <<-1, 0>>
      [] d = "RIGHT" -> <<1, 0>>

MENU == "menu"
PLAYING == "playing"
PAUSED == "paused"
GAME_OVER == "game_over"
GameStates == {MENU, PLAYING, PAUSED, GAME_OVER}

direction_opposites(d) ==
    CASE d = "UP" -> "DOWN"
      [] d = "DOWN" -> "UP"
      [] d = "LEFT" -> "RIGHT"
      [] d = "RIGHT" -> "LEFT"

\* Keys the event loop distinguishes; K_x stands for any unmapped key.
Keys == {"K_UP", "K_DOWN", "K_LEFT", "K_RIGHT", "K_w", "K_s", "K_a", "K_d",
         "K_SPACE", "K_p", "K_ESCAPE", "K_x"}

\* The result of key_mapping.get(key) for a key that is not mapped (None).
NoDirection == "NONE"

\* key_mapping.get(key): the direction of a key, None for any other key.
key_mapping(k) ==
    CASE k \in {"K_UP", "K_w"} -> "UP"
      [] k \in {"K_DOWN", "K_s"} -> "DOWN"
      [] k \in {"K_LEFT", "K_a"} -> "LEFT"
      [] k \in {"K_RIGHT", "K_d"} -> "RIGHT"
      [] OTHER -> NoDirection

(***************************************************************************)
(* The high-score file: json.dumps / json.loads on text, a text being a    *)
(* sequence of one-character strings.                                      *)
(***************************************************************************)
DigitChars == <<"0", "1", "2", "3", "4", "5", "6", "7", "8", "9">>

IsDigit(c) == \E d \in 1..10 : DigitChars[d] = c

DigitValue(c) == (CHOOSE d \in 1..10 : DigitChars[d] = c) - 1

\* NatToText emitting the digits least significant first.
RECURSIVE NatToTextReversed(_)
NatToTextReversed(n) ==
    IF n < 10 THEN <<DigitChars[n + 1]>>
    ELSE <<DigitChars[(n % 10) + 1]>> \o NatToTextReversed(n \div 10)

RECURSIVE NatToText(_)
NatToText(n) ==
    IF n < 10 THEN <<DigitChars[n + 1]>>
    ELSE NatToText(n \div 10) \o <<DigitChars[(n % 10) + 1]>>

\* The decimal text json.dumps writes for an int.
IntToText(n) == IF n < 0 THEN <<"-">> \o NatToText(0 - n) ELSE NatToText(n)

HighScoreKey == <<"h", "i", "g", "h", "_", "s", "c", "o", "r", "e">>

\* json.dumps({"high_score": n}) == '{"high_score": n}'
JsonDumps(n) ==
    <<"{", "\"">> \o HighScoreKey \o <<"\"", ":", " ">> \o IntToText(n) \o <<"}">>

\* A parse result: ok, the value's type and content, and the index after it.
ParseFail == [ok |-> FALSE, type |-> "error", val |-> 0, next |-> 0]

Parsed(ty, v, n) == [ok |-> TRUE, type |-> ty, val |-> v, next |-> n]

At(t, i) == IF i >= 1 /\ i <= Len(t) THEN t[i] ELSE ""

RECURSIVE SkipWs(_, _)
SkipWs(t, i) ==
    IF At(t, i) \in {" ", "\n", "\t", "\r"} THEN SkipWs(t, i + 1) ELSE i

RECURSIVE ScanDigits(_, _, _)
ScanDigits(t, i, acc) ==
    IF IsDigit(At(t, i)) THEN ScanDigits(t, i + 1, acc * 10 + DigitValue(t[i]))
    ELSE [val |-> acc, next |-> i]

\* A JSON number: -? (0 | [1-9][0-9]*) with an optional fraction; a number
\* with a fraction is a float, whose value the model does not compute.
ParseNumber(t, i) ==
    LET neg == At(t, i) = "-"
        j == IF neg THEN i + 1 ELSE i
        int == IF At(t, j) = "0" THEN [val |-> 0, next |-> j + 1]
               ELSE ScanDigits(t, j, 0)
        frac == ScanDigits(t, int.next + 1, 0)
    IN  IF ~IsDigit(At(t, j)) THEN ParseFail
        ELSE IF At(t, int.next) = "."
             THEN IF frac.next = int.next + 1 THEN ParseFail
                  ELSE Parsed("float", 0, frac.next)
        ELSE Parsed("int", IF neg THEN 0 - int.val ELSE int.val, int.next)

RECURSIVE FindQuote(_, _)
FindQuote(t, i) ==
    IF i > Len(t) THEN 0 ELSE IF t[i] = "\"" THEN i ELSE FindQuote(t, i + 1)

\* A JSON string without escape sequences.
ParseString(t, i) ==
    LET q == FindQuote(t, i + 1)
    IN  IF At(t, i) # "\"" \/ q = 0 THEN ParseFail
        ELSE Parsed("str", SubSeq(t, i + 1, q - 1), q + 1)

ParseLiteral(t, i, word, ty) ==
    IF i + Len(word) - 1 <= Len(t) /\ SubSeq(t, i, i + Len(word) - 1) = word
    THEN Parsed(ty, 0, i + Len(word))
    ELSE ParseFail

RECURSIVE ParseValue(_, _)
RECURSIVE ParseMembers(_, _, _)
RECURSIVE ParseElements(_, _, _)

ParseValue(t, i0) ==
    LET i == SkipWs(t, i0)
        c == At(t, i)
    IN  CASE c = "{" ->
               IF At(t, SkipWs(t, i + 1)) = "}"
               THEN Parsed("object", <<>>, SkipWs(t, i + 1) + 1)
               ELSE ParseMembers(t, SkipWs(t, i + 1), <<>>)
          [] c = "[" ->
               IF At(t, SkipWs(t, i + 1)) = "]"
               THEN Parsed("array", <<>>, SkipWs(t, i + 1) + 1)
               ELSE ParseElements(t, i + 1, <<>>)
          [] c = "\"" -> ParseString(t, i)
          [] c = "-" \/ IsDigit(c) -> ParseNumber(t, i)
          [] c = "n" -> ParseLiteral(t, i, <<"n", "u", "l", "l">>, "null")
          [] c = "t" -> ParseLiteral(t, i, <<"t", "r", "u", "e">>, "true")
          [] c = "f" -> ParseLiteral(t, i, <<"f", "a", "l", "s", "e">>, "false")
          [] OTHER -> ParseFail

\* The members of an object from the key at i on; acc holds the pairs read.
ParseMembers(t, i, acc) ==
    LET k == ParseString(t, i)
        colon == SkipWs(t, k.next)
        v == ParseValue(t, colon + 1)
        e == SkipWs(t, v.next)
        pairs == Append(acc, <<k.val, [type |-> v.type, val |-> v.val]>>)
    IN  IF ~k.ok \/ At(t, colon) # ":" THEN ParseFail
        ELSE IF ~v.ok THEN ParseFail
        ELSE IF At(t, e) = "}" THEN Parsed("object", pairs, e + 1)
        ELSE IF At(t, e) = "," THEN ParseMembers(t, SkipWs(t, e + 1), pairs)
        ELSE ParseFail

\* The elements of an array from index i on; acc holds the values read.
ParseElements(t, i, acc) ==
    LET v == ParseValue(t, i)
        e == SkipWs(t, v.next)
        vals == Append(acc, [type |-> v.type, val |-> v.val])
    IN  IF ~v.ok THEN ParseFail
        ELSE IF At(t, e) = "]" THEN Parsed("array", vals, e + 1)
        ELSE IF At(t, e) = "," THEN ParseElements(t, e + 1, vals)
        ELSE ParseFail

\* json.loads(text): one value and nothing but whitespace after it.
JsonLoads(t) ==
    LET r == ParseValue(t, 1)
    IN  IF r.ok /\ SkipWs(t, r.next) = Len(t) + 1 THEN r ELSE ParseFail

\* dict.get(key, default); of a repeated key the last one counts.
DictGet(members, key, default) ==
    LET at == {i \in 1..Len(members) : members[i][1] = key}
    IN  IF at = {} THEN default
        ELSE members[CHOOSE i \in at : \A j \in at : j <= i][2]

\* The file high_score.json: absent, or present with a text.
NoFile == [exists |-> FALSE, text |-> <<>>]

FileWith(t) == [exists |-> TRUE, text |-> t]

\* _load_high_score: 0 for an absent file and on any exception (a text that
\* does not parse, a value without .get); otherwise what .get returns. Of a
\* value that is not an int only the type is kept (LoadedType), the number
\* here is then 0.
LoadHighScore(f) ==
    IF ~f.exists THEN 0
    ELSE LET r == JsonLoads(f.text)
             v == DictGet(r.val, HighScoreKey, [type |-> "int", val |-> 0])
         IN  IF ~r.ok \/ r.type # "object" THEN 0
             ELSE IF v.type = "int" THEN v.val
             ELSE 0

\* The Python type of what _load_high_score returns.
LoadedType(f) ==
    IF ~f.exists THEN "int"
    ELSE LET r == JsonLoads(f.text)
         IN  IF ~r.ok \/ r.type # "object" THEN "int"
             ELSE DictGet(r.val, HighScoreKey, [type |-> "int", val |-> 0]).type

\* _save_high_score: the file after the call; write_text may fail, and the
\* exception is swallowed, leaving the file as it was.
SaveHighScore(hs, f) == {FileWith(JsonDumps(hs)), f}

(***************************************************************************)
(* Game state (the fields of SnakeGame), the file, and the loop position.  *)
(***************************************************************************)
VARIABLES
    state,                \* self.state
    score,                \* self.score
    high_score,           \* self.high_score, when it is an int
    high_score_type,      \* the Python type of self.high_score
    snake,                \* self.snake, tail first, head last
    direction,            \* self.direction
    next_direction,       \* self.next_direction
    growing,              \* self.growing
    food_pos,             \* self.food_pos
    special_food_pos,     \* self.special_food_pos
    special_food_timer,   \* self.special_food_timer
    fps,                  \* self.fps
    running,              \* the local flag of run()
    pc,                   \* position: "events", "draw" (in run), "save", "exited"
    frame,                \* iterations of the loop since the initial state
    high_score_file       \* the contents of high_score.json

vars == <<state, score, high_score, high_score_type, snake, direction, next_direction,
          growing, food_pos, special_food_pos, special_food_timer, fps,
          running, pc, frame, high_score_file>>

game == <<score, snake, direction, next_direction, growing, food_pos,
          special_food_pos, special_food_timer>>

(***************************************************************************)
(* _reset_game and _spawn_food.                                            *)
(***************************************************************************)
center_x == GridWidth \div 2
center_y == GridHeight \div 2

\* The snake _reset_game builds: three cells ending at the centre.
InitialSnake ==
    <<<<center_x - 2, center_y>>, <<center_x - 1, center_y>>,
      <<center_x, center_y>>>>

\* ValidPositions that keeps only the head's cell out.
ValidPositionsOffHead(snk) == {c \in Cells : c # snk[Len(snk)]}

\* ValidPositions without the filter on the snake's cells.
ValidPositionsAnyCell(snk) == Cells

\* valid_positions: the grid cells that are not in the snake.
ValidPositions(snk) == {c \in Cells : c \notin Range(snk)}

\* SpawnTimer that starts the countdown whether or not a food was placed.
SpawnTimerAlways(special) == SPECIAL_FOOD_LIFETIME

\* special_food_timer after a spawn: 150 if a special food was placed.
SpawnTimer(special) == IF special # None THEN SPECIAL_FOOD_LIFETIME ELSE 0

\* SpawnFood that places the normal food on any cell when none is free.
SpawnFoodOnFullGrid(snk) ==
    LET valid == ValidPositions(snk)
    IN  IF valid = {}
        THEN {[food |-> f, special |-> None, timer |-> 0] : f \in Cells}
        ELSE {[food |-> f, special |-> s, timer |-> SpawnTimer(s)] :
                 f \in valid, s \in valid \cup {None}}

\* SpawnFood that may place no normal food although cells are free.
SpawnFoodMayMiss(snk) ==
    LET valid == ValidPositions(snk)
    IN  {[food |-> f, special |-> s, timer |-> SpawnTimer(s)] :
            f \in valid \cup {None}, s \in valid \cup {None}}

\* The outcomes of _spawn_food for a snake: random.choice for the normal
\* food and, when random.random() < 0.1, another for the special food.
SpawnFood(snk) ==
    LET valid == ValidPositions(snk)
    IN  IF valid = {}
        THEN {[food |-> None, special |-> None, timer |-> 0]}
        ELSE {[food |-> f, special |-> s, timer |-> SpawnTimer(s)] :
                 f \in valid, s \in valid \cup {None}}

\* ResetGame that keeps the score of the game before.
ResetGameKeepsScore ==
    /\ snake' = InitialSnake
    /\ direction' = "RIGHT"
    /\ next_direction' = "RIGHT"
    /\ score' = score
    /\ growing' = FALSE
    /\ \E o \in SpawnFood(InitialSnake) :
          /\ food_pos' = o.food
          /\ special_food_pos' = o.special
          /\ special_food_timer' = o.timer

\* _reset_game as an action on the game fields.
ResetGame ==
    /\ snake' = InitialSnake
    /\ direction' = "RIGHT"
    /\ next_direction' = "RIGHT"
    /\ score' = 0
    /\ growing' = FALSE
    /\ \E o \in SpawnFood(InitialSnake) :
          /\ food_pos' = o.food
          /\ special_food_pos' = o.special
          /\ special_food_timer' = o.timer

(***************************************************************************)
(* Event dispatch.                                                         *)
(***************************************************************************)
\* HandleInput without the test against the opposite direction.
HandleInputAnyDirection(dir, nd, key) ==
    IF key_mapping(key) # NoDirection THEN key_mapping(key) ELSE nd

\* _handle_input: next_direction after a key, given the committed direction.
HandleInput(dir, nd, key) ==
    LET new_direction == key_mapping(key)
    IN  IF new_direction # NoDirection /\ new_direction # direction_opposites(dir)
        THEN new_direction
        ELSE nd

\* StateAfterKey with the pause key also resuming from GAME_OVER.
StateAfterKeyResumeAny(st, key) ==
    CASE st = MENU /\ key = "K_SPACE" -> PLAYING
      [] st = PLAYING /\ key = "K_p" -> PAUSED
      [] st # PLAYING /\ st # MENU /\ key = "K_p" -> PLAYING
      [] st = GAME_OVER /\ key = "K_SPACE" -> PLAYING
      [] OTHER -> st

\* The state-specific branches of run(): the state after a key other than ESC.
StateAfterKey(st, key) ==
    CASE st = MENU /\ key = "K_SPACE" -> PLAYING
      [] st = PLAYING /\ key = "K_p" -> PAUSED
      [] st = PAUSED /\ key = "K_p" -> PLAYING
      [] st = GAME_OVER /\ key = "K_SPACE" -> PLAYING
      [] OTHER -> st

\* Whether the key calls _reset_game in this state.
ResetsGame(st, key) == st \in {MENU, GAME_OVER} /\ key = "K_SPACE"

\* A pygame.KEYDOWN event taken from the queue.
KeyDown(key) ==
    /\ pc = "events"
    /\ IF key = "K_ESCAPE"
       THEN /\ running' = FALSE
            /\ UNCHANGED <<state, game>>
       ELSE /\ state' = StateAfterKey(state, key)
            /\ running' = running
            /\ IF ResetsGame(state, key)
               THEN ResetGame
               ELSE /\ next_direction' =
                          IF state = PLAYING /\ key # "K_p"
                          THEN HandleInput(direction, next_direction, key)
                          ELSE next_direction
                    /\ UNCHANGED <<score, snake, direction, growing, food_pos,
                                   special_food_pos, special_food_timer>>
    /\ UNCHANGED <<high_score, high_score_type, fps, pc, frame, high_score_file>>

\* A pygame.QUIT event taken from the queue.
QuitEvent ==
    /\ pc = "events"
    /\ running' = FALSE
    /\ UNCHANGED <<state, game, high_score, high_score_type, fps, pc, frame,
                   high_score_file>>

(***************************************************************************)
(* Simulation update.                                                      *)
(***************************************************************************)
SnakeHead(snk) == snk[Len(snk)]

\* new_head = (head[0] + dx, head[1] + dy)
NewHead(snk, d) ==
    <<SnakeHead(snk)[1] + DirectionValue(d)[1], SnakeHead(snk)[2] + DirectionValue(d)[2]>>

\* wall_collision with <= for < on the right edge.
wall_collision_off_by_one(new_head) ==
    ~(0 <= new_head[1] /\ new_head[1] <= GridWidth /\
      0 <= new_head[2] /\ new_head[2] < GridHeight)

\* wall_collision that tests the rows only.
wall_collision_rows_only(new_head) ==
    ~(0 <= new_head[2] /\ new_head[2] < GridHeight)

wall_collision(new_head) ==
    ~(0 <= new_head[1] /\ new_head[1] < GridWidth /\
      0 <= new_head[2] /\ new_head[2] < GridHeight)

\* self_collision that tests the cell behind the head only.
self_collision_neck_only(new_head, snk) == new_head = snk[Len(snk) - 1]

\* self_collision that leaves out the tail cell, which the move vacates.
self_collision_without_tail(new_head, snk) == new_head \in Range(Tail(snk))

\* self_collision = new_head in self.snake
self_collision(new_head, snk) == new_head \in Range(snk)

\* Points crediting nothing for a special food.
PointsNormalOnly(food_eaten) == IF food_eaten THEN FOOD_POINTS ELSE 0

\* points = 10 if food_eaten else 50
Points(food_eaten) == IF food_eaten THEN FOOD_POINTS ELSE SPECIAL_POINTS

\* RemoveTail ignoring the growing flag: the tail is always dropped.
RemoveTailAlways(snk, grow) == Tail(snk)

\* The snake after "remove tail if not growing".
RemoveTail(snk, grow) == IF ~grow THEN Tail(snk) ELSE snk

\* BeatsHighScore with >= for >.
BeatsHighScoreOrTies(sc, hs) == sc >= hs

\* Whether _game_over records the score as the new high score.
BeatsHighScore(sc, hs) == sc > hs

\* SpeedFor without the cap.
SpeedForUncapped(sc) == BASE_FPS + sc \div FPS_SCORE_STEP

\* self.fps = min(10 + self.score // 50, 20)
SpeedFor(sc) == Min(BASE_FPS + sc \div FPS_SCORE_STEP, MAX_FPS)

\* _game_over
GameOver ==
    /\ state' = GAME_OVER
    /\ IF BeatsHighScore(score, high_score)
       THEN /\ high_score' = score
            /\ high_score_type' = "int"
            /\ high_score_file' \in SaveHighScore(score, high_score_file)
       ELSE UNCHANGED <<high_score, high_score_type, high_score_file>>

\* _move_snake
MoveSnake ==
    LET new_head == NewHead(snake, next_direction)
        moved == Append(snake, new_head)
        food_eaten == new_head = food_pos
        special_eaten == new_head = special_food_pos
        grow == food_eaten \/ special_eaten
    IN  /\ direction' = next_direction
        /\ UNCHANGED next_direction
        /\ IF wall_collision(new_head) \/ self_collision(new_head, snake)
           THEN /\ GameOver
                /\ UNCHANGED <<score, snake, growing, food_pos,
                               special_food_pos, special_food_timer>>
           ELSE /\ UNCHANGED <<state, high_score, high_score_type, high_score_file>>
                /\ score' = IF grow THEN score + Points(food_eaten) ELSE score
                /\ snake' = RemoveTail(moved, growing \/ grow)
                /\ growing' = FALSE
                /\ IF food_eaten
                   THEN \E o \in SpawnFood(moved) :
                           /\ food_pos' = o.food
                           /\ special_food_pos' = o.special
                           /\ special_food_timer' = o.timer
                   ELSE /\ food_pos' = food_pos
                        /\ special_food_pos' =
                              IF special_eaten THEN None ELSE special_food_pos
                        /\ special_food_timer' =
                              IF special_eaten THEN 0 ELSE special_food_timer

\* "Update game logic": the end of the event loop and the simulation step.
Update ==
    /\ pc = "events"
    /\ frame < MaxFrames
    /\ pc' = "draw"
    /\ IF state = PLAYING
       THEN /\ MoveSnake
            /\ fps' = SpeedFor(score')
       ELSE UNCHANGED <<state, game, high_score, high_score_type,
                        high_score_file, fps>>
    /\ UNCHANGED <<running, frame>>

(***************************************************************************)
(* Redraw: of all drawing only _draw_food changes game state.              *)
(***************************************************************************)
\* DrawFood without the removal at zero.
DrawFoodNoExpiry(pos, timer) ==
    IF pos # None /\ timer > 0
    THEN [pos |-> pos, timer |-> timer - 1]
    ELSE [pos |-> pos, timer |-> timer]

\* The countdown in _draw_food: position and timer of the special food after.
DrawFood(pos, timer) ==
    IF pos # None /\ timer > 0
    THEN [pos |-> IF timer - 1 = 0 THEN None ELSE pos, timer |-> timer - 1]
    ELSE [pos |-> pos, timer |-> timer]

\* Draw whose loop test ignores the quit flag.
DrawIgnoresQuit ==
    /\ pc = "draw"
    /\ IF state \in {PLAYING, PAUSED}
       THEN /\ special_food_pos' = DrawFood(special_food_pos, special_food_timer).pos
            /\ special_food_timer' = DrawFood(special_food_pos, special_food_timer).timer
       ELSE UNCHANGED <<special_food_pos, special_food_timer>>
    /\ frame' = frame + 1
    /\ pc' = "events"
    /\ UNCHANGED <<state, score, high_score, high_score_type, snake, direction,
                   next_direction, growing, food_pos, fps, running,
                   high_score_file>>

\* "Draw based on state", display.flip, clock.tick and the loop test.
Draw ==
    /\ pc = "draw"
    /\ IF state \in {PLAYING, PAUSED}
       THEN /\ special_food_pos' = DrawFood(special_food_pos, special_food_timer).pos
            /\ special_food_timer' = DrawFood(special_food_pos, special_food_timer).timer
       ELSE UNCHANGED <<special_food_pos, special_food_timer>>
    /\ frame' = frame + 1
    /\ pc' = IF running THEN "events" ELSE "exited"
    /\ UNCHANGED <<state, score, high_score, high_score_type, snake, direction,
                   next_direction, growing, food_pos, fps, running,
                   high_score_file>>

(***************************************************************************)
(* The game: a process started with no high-score file or with one left by *)
(* an earlier run.                                                         *)
(***************************************************************************)
InitialFiles == {NoFile, FileWith(JsonDumps(FOOD_POINTS))}

\* __init__
Init ==
    /\ high_score_file \in InitialFiles
    /\ state = MENU
    /\ high_score = LoadHighScore(high_score_file)
    /\ high_score_type = LoadedType(high_score_file)
    /\ fps = BASE_FPS
    /\ snake = InitialSnake
    /\ direction = "RIGHT"
    /\ next_direction = "RIGHT"
    /\ score = 0
    /\ growing = FALSE
    /\ \E o \in SpawnFood(InitialSnake) :
          /\ food_pos = o.food
          /\ special_food_pos = o.special
          /\ special_food_timer = o.timer
    /\ running = TRUE
    /\ pc = "events"
    /\ frame = 0

Next ==
    \/ \E key \in Keys : KeyDown(key)
    \/ QuitEvent
    \/ Update
    \/ Draw

Spec == Init /\ [][Next]_vars

(***************************************************************************)
(* Steps of the loop, as the properties below name them.                   *)
(***************************************************************************)
\* A simulation tick: _move_snake runs.
TickStep == pc = "events" /\ pc' = "draw" /\ state = PLAYING

\* A redraw.
DrawStep == pc = "draw" /\ pc' # "draw"

\* A step that runs _reset_game.
ResetStep ==
    pc = "events" /\ pc' = "events" /\ state \in {MENU, GAME_OVER} /\ state' = PLAYING

\* The head moved into a cell that held food before the step.
AteFood ==
    /\ snake'[Len(snake')] # snake[Len(snake)]
    /\ snake'[Len(snake')] \in {food_pos, special_food_pos}

AteNormalFood ==
    /\ snake'[Len(snake')] # snake[Len(snake)]
    /\ snake'[Len(snake')] = food_pos

OutOfGrid(c) == c[1] < 0 \/ c[1] >= GridWidth \/ c[2] < 0 \/ c[2] >= GridHeight

Reversals ==
    {<<"UP", "DOWN">>, <<"DOWN", "UP">>, <<"LEFT", "RIGHT">>, <<"RIGHT", "LEFT">>}

(***************************************************************************)
(* C1..C8: the simulation.                                                 *)
(***************************************************************************)
\* C1: a tick in Playing leaves the snake's length unchanged when no food
\* was eaten (game over included) and adds exactly one cell when the new
\* head entered a normal-food or special-food cell.
C1_LengthPerTick ==
    [][TickStep =>
          Len(snake') = Len(snake) + (IF AteFood THEN 1 ELSE 0)]_vars

C1_Witness == pc = "draw" /\ state = PLAYING /\ Len(snake) = 5 /\ score = 60

\* C2: the pending direction is never the opposite of the committed one,
\* whatever keys arrive between two ticks, so a tick never commits the
\* opposite of the direction committed before it.
C2_NoReversal ==
    /\ [](<<direction, next_direction>> \notin Reversals)
    /\ [][TickStep => <<direction, direction'>> \notin Reversals]_vars

C2_Witness ==
    pc = "events" /\ state = PLAYING /\ direction = "LEFT" /\ next_direction = "UP"

\* C3: every _spawn_food (at reset, after normal food is eaten) leaves the
\* normal food and the special food, when present, off the snake as it is
\* then: with the new head and with the tail not dropped.
C3_SpawnOffSnake ==
    [][(ResetStep \/ (TickStep /\ AteNormalFood)) =>
          /\ food_pos' \notin Range(snake')
          /\ special_food_pos' \notin Range(snake')]_vars

C3_Witness ==
    /\ pc = "draw" /\ state = PLAYING /\ Len(snake) = 4 /\ score = FOOD_POINTS
    /\ food_pos # None /\ special_food_pos # None

\* C4: within a game the score changes only on a tick whose new head
\* enters a food cell, and then grows by exactly 10 or 50; every other
\* tick, key event or frame leaves it unchanged.
C4_ScoreSteps ==
    [][~ResetStep =>
          IF TickStep /\ AteFood
          THEN score' - score \in {10, 50}
          ELSE score' = score]_vars

C4_Witness == state = PAUSED /\ score = 110

\* C5: the high score changes only on the transition into GameOver; there
\* it becomes the score, and the file is written with it, if and only if
\* the score is greater than the high score (a failed write leaves the
\* file as it was); at every other step both are unchanged.
C5_HighScoreAtGameOver ==
    [][IF state # GAME_OVER /\ state' = GAME_OVER /\ score > high_score
       THEN /\ high_score' = score
            /\ \/ high_score_file' = high_score_file
               \/ /\ high_score_file'.exists
                  /\ LoadHighScore(high_score_file') = score
       ELSE /\ high_score' = high_score
            /\ high_score_file' = high_score_file]_vars

C5_Witness ==
    /\ state = GAME_OVER /\ score = 20 /\ high_score = 20
    /\ high_score_file.exists /\ LoadHighScore(high_score_file) = 20

\* C6: a tick whose head + direction lies outside the grid ends in GameOver
\* on that tick and leaves the snake, the score and both food positions as
\* they were.
C6_WallIsGameOver ==
    [][(TickStep /\ OutOfGrid(
            <<snake[Len(snake)][1] + DirectionValue(next_direction)[1],
              snake[Len(snake)][2] + DirectionValue(next_direction)[2]>>)) =>
          /\ state' = GAME_OVER
          /\ UNCHANGED <<snake, score, food_pos, special_food_pos>>]_vars

C6_Witness ==
    /\ pc = "draw" /\ state = GAME_OVER /\ direction = "RIGHT"
    /\ snake[Len(snake)][1] = GridWidth - 1

\* C7: the state starts at Menu and changes only by Menu->Playing on SPACE,
\* Playing->Paused and Paused->Playing on P, Playing->GameOver on a tick,
\* GameOver->Playing on SPACE.
C7_StateMachine ==
    /\ state = MENU
    /\ [][state' # state =>
             \/ state = MENU /\ state' = PLAYING /\ KeyDown("K_SPACE")
             \/ state = PLAYING /\ state' = PAUSED /\ KeyDown("K_p")
             \/ state = PAUSED /\ state' = PLAYING /\ KeyDown("K_p")
             \/ state = PLAYING /\ state' = GAME_OVER /\ TickStep
             \/ state = GAME_OVER /\ state' = PLAYING /\ KeyDown("K_SPACE")]_vars

C7_Witness == state = PAUSED /\ score = 0 /\ high_score = 50

(***************************************************************************)
(* C8: the countdown of the special food, from games that have been paused *)
(* until the countdown is about to run out.                                *)
(***************************************************************************)
\* A game paused right after its start, the special food spawned by the
\* reset still there with a few frames of its countdown left.
InitPaused ==
    /\ high_score_file = NoFile
    /\ state = PAUSED
    /\ high_score = LoadHighScore(high_score_file)
    /\ high_score_type = LoadedType(high_score_file)
    /\ fps = BASE_FPS
    /\ snake = InitialSnake
    /\ direction = "RIGHT"
    /\ next_direction = "RIGHT"
    /\ score = 0
    /\ growing = FALSE
    /\ \E o \in SpawnFood(InitialSnake) :
          /\ o.special # None
          /\ food_pos = o.food
          /\ special_food_pos = o.special
    /\ special_food_timer \in 1..MaxRemaining
    /\ running = TRUE
    /\ pc = "events"
    /\ frame = 0

SpecExpiry == InitPaused /\ [][Next]_vars

\* A redraw that runs the countdown of a special food.
CountdownStep ==
    DrawStep /\ state \in {PLAYING, PAUSED} /\ special_food_pos # None

\* C8: a special food whose countdown reaches zero uneaten becomes absent in
\* that frame with the score unchanged; a special food starts with at most
\* 150 steps and every countdown step takes exactly one, so it is gone
\* after at most 150 of them.
C8_SpecialFoodExpiry ==
    /\ [](special_food_pos # None =>
             special_food_timer \in 1..SPECIAL_FOOD_LIFETIME)
    /\ [][CountdownStep =>
             /\ special_food_timer' = special_food_timer - 1
             /\ score' = score
             /\ (special_food_timer' = 0 => special_food_pos' = None)
             /\ (special_food_timer' > 0 => special_food_pos' = special_food_pos)]_vars

C8_Witness ==
    /\ state = PAUSED /\ frame = 1 /\ snake = InitialSnake /\ score = 0
    /\ special_food_pos = None /\ special_food_timer = 0 /\ food_pos # None

(***************************************************************************)
(* C9: the speed rule over the scores of a long game.                      *)
(***************************************************************************)
\* What the ticks of one game do to score and fps: a tick adds the points
\* of the food it ate, if any, and run() recomputes fps from the score.
SpeedStep ==
    /\ \E points \in {0, FOOD_POINTS, SPECIAL_POINTS} :
          /\ score + points <= MaxFpsScore
          /\ score' = score + points
    /\ fps' = SpeedFor(score')
    /\ UNCHANGED <<state, high_score, high_score_type, snake, direction,
                   next_direction, growing,
                   food_pos, special_food_pos, special_food_timer, running, pc,
                   frame, high_score_file>>

InitFps ==
    /\ high_score_file = NoFile
    /\ state = PLAYING
    /\ high_score = LoadHighScore(high_score_file)
    /\ high_score_type = LoadedType(high_score_file)
    /\ fps = BASE_FPS
    /\ snake = InitialSnake
    /\ direction = "RIGHT"
    /\ next_direction = "RIGHT"
    /\ score = 0
    /\ growing = FALSE
    /\ food_pos = None
    /\ special_food_pos = None
    /\ special_food_timer = 0
    /\ running = TRUE
    /\ pc = "events"
    /\ frame = 0

NextFps == SpeedStep

SpecFps == InitFps /\ [][NextFps]_vars

\* C9: after every tick fps = min(10 + score div 50, 20); it never drops
\* while the score grows and stays within 10..20.
C9_SpeedRule ==
    /\ [](fps = (IF score >= 500 THEN 20 ELSE 10 + score \div 50))
    /\ [](fps >= 10 /\ fps <= 20)
    /\ [][score' >= score => fps' >= fps]_vars

C9_Witness == score = 1000 /\ fps = 20

(***************************************************************************)
(* C10: a high score saved by one process and loaded by the next.          *)
(***************************************************************************)
\* _game_over has just set high_score to the score and calls
\* _save_high_score; the file does not exist yet.
InitRoundTrip ==
    /\ high_score_file = NoFile
    /\ state = GAME_OVER
    /\ score \in 0..MaxSavedScore
    /\ high_score = score
    /\ high_score_type = "int"
    /\ fps = SpeedFor(score)
    /\ snake = InitialSnake
    /\ direction = "RIGHT"
    /\ next_direction = "RIGHT"
    /\ growing = FALSE
    /\ food_pos = None
    /\ special_food_pos = None
    /\ special_food_timer = 0
    /\ running = TRUE
    /\ pc = "save"
    /\ frame = 0

\* _save_high_score, after which the process runs to its exit.
SaveAndExit ==
    /\ pc = "save"
    /\ high_score_file' \in SaveHighScore(high_score, high_score_file)
    /\ running' = FALSE
    /\ pc' = "exited"
    /\ UNCHANGED <<state, game, high_score, high_score_type, fps, frame>>

\* A fresh process: __init__ with the file the last process left.
ProcessStart ==
    /\ pc = "exited"
    /\ state' = MENU
    /\ high_score' = LoadHighScore(high_score_file)
    /\ high_score_type' = LoadedType(high_score_file)
    /\ fps' = BASE_FPS
    /\ ResetGame
    /\ running' = TRUE
    /\ pc' = "events"
    /\ frame' = 0
    /\ UNCHANGED high_score_file

NextRoundTrip == SaveAndExit \/ ProcessStart

SpecRoundTrip == InitRoundTrip /\ [][NextRoundTrip]_vars

\* C10: once _save_high_score has written N, the next process loads N.
C10_RoundTrip ==
    [][(pc = "exited" /\ pc' = "events" /\ high_score_file.exists) =>
          high_score' = high_score]_vars

C10_Witness ==
    pc = "events" /\ state = MENU /\ high_score = 123 /\ high_score_file.exists

(***************************************************************************)
(* C11: a process started on a high-score file of any content.             *)
(***************************************************************************)
\* The text of an object whose high_score member has the given value text.
ObjectText(value) ==
    <<"{", "\"">> \o HighScoreKey \o <<"\"", ":", " ">> \o value \o <<"}">>

\* Files the claim calls missing or malformed: absent; text that does not
\* parse; JSON that is not an object; an object without high_score; an
\* object whose high_score is not an integer.
MalformedFiles ==
    {NoFile,
     FileWith(<<>>),
     FileWith(<<"{">>),
     FileWith(<<"a", "b", "c">>),
     FileWith(<<"[", "1", "]">>),
     FileWith(<<"5">>),
     FileWith(<<"n", "u", "l", "l">>),
     FileWith(<<"{", "}">>),
     FileWith(<<"{", "\"", "s", "\"", ":", " ", "5", "}">>),
     FileWith(ObjectText(<<"\"", "a", "b", "c", "\"">>)),
     FileWith(ObjectText(<<"n", "u", "l", "l">>)),
     FileWith(ObjectText(<<"1", ".", "5">>)),
     FileWith(ObjectText(<<"[", "1", "]">>))}

\* Files with an integer high_score, as _save_high_score writes them or as
\* edited by hand.
IntegerFiles ==
    {FileWith(JsonDumps(0)), FileWith(JsonDumps(20)), FileWith(JsonDumps(0 - 5)),
     FileWith(<<" ">> \o JsonDumps(130) \o <<"\n">>)}

\* An exited process and the file it, or the user, left behind.
InitLoad ==
    /\ high_score_file \in MalformedFiles \cup IntegerFiles
    /\ state = MENU
    /\ high_score = 0
    /\ high_score_type = "int"
    /\ fps = BASE_FPS
    /\ snake = InitialSnake
    /\ direction = "RIGHT"
    /\ next_direction = "RIGHT"
    /\ score = 0
    /\ growing = FALSE
    /\ food_pos = None
    /\ special_food_pos = None
    /\ special_food_timer = 0
    /\ running = FALSE
    /\ pc = "exited"
    /\ frame = 0

NextLoad == ProcessStart

SpecLoad == InitLoad /\ [][NextLoad]_vars

\* C11: loading never fails and yields 0 for every missing or malformed
\* file, so the loaded high score is always a non-negative integer.
C11_LoadYieldsZero ==
    [][(pc = "exited" /\ pc' = "events") =>
          /\ high_score_type' = "int"
          /\ high_score' >= 0
          /\ (high_score_file \in MalformedFiles => high_score' = 0)]_vars

(***************************************************************************)
(* C12..C18: food, collisions and resets in the game.                      *)
(***************************************************************************)
\* C12: a tick that eats the normal food places a new normal food at once,
\* on a cell other than the one just eaten and off the snake, whenever a
\* cell is free; so in Playing a normal food is present unless the snake
\* fills the grid.
C12_FoodRespawns ==
    /\ [][(TickStep /\ AteNormalFood /\ Cells \ Range(snake') # {}) =>
             /\ food_pos' \in Cells
             /\ food_pos' # food_pos
             /\ food_pos' \notin Range(snake')]_vars
    /\ [](state = PLAYING => (food_pos \in Cells \/ Range(snake) = Cells))

C12_Witness ==
    /\ pc = "draw" /\ state = PLAYING /\ Len(snake) = 5 /\ score = 20
    /\ food_pos \in Cells

\* C13: a tick whose new head enters the special-food cell adds exactly 50
\* to the score and leaves the special food absent with countdown 0,
\* wherever the normal food is, the special food's own cell included.
C13_SpecialFoodScores ==
    [][(TickStep /\ special_food_pos \in Cells
          /\ special_food_pos =
                <<snake[Len(snake)][1] + DirectionValue(next_direction)[1],
                  snake[Len(snake)][2] + DirectionValue(next_direction)[2]>>) =>
          /\ score' = score + SPECIAL_POINTS
          /\ special_food_pos' = None
          /\ special_food_timer' = 0]_vars

\* C14: while the state is Paused no step (key event, update or frame)
\* changes the snake, the direction, the pending direction, the score, the
\* normal food, the special food or its countdown, so they are on resuming
\* what they were when the pause began.
C14_PausedFreezesGame ==
    [][state = PAUSED =>
          UNCHANGED <<snake, direction, next_direction, score, food_pos,
                      special_food_pos, special_food_timer>>]_vars

\* C15: a tick ends in GameOver exactly when the new head is outside the
\* grid or equals a cell of the snake as it is before the move; the tail
\* cell counts, although the move would have vacated it.
C15_SelfCollision ==
    [][TickStep =>
          LET new_head ==
                <<snake[Len(snake)][1] + DirectionValue(next_direction)[1],
                  snake[Len(snake)][2] + DirectionValue(next_direction)[2]>>
          IN  /\ state' = GAME_OVER <=>
                    (OutOfGrid(new_head) \/ \E i \in 1..Len(snake) : snake[i] = new_head)
              /\ new_head = snake[1] => state' = GAME_OVER]_vars

\* A game that ended with the head turned onto the tail cell.
C15_Witness ==
    /\ pc = "draw" /\ state = GAME_OVER
    /\ snake[1] = <<snake[Len(snake)][1] + DirectionValue(direction)[1],
                    snake[Len(snake)][2] + DirectionValue(direction)[2]>>

\* C16: in every reachable state the snake has at least 3 cells, no cell
\* twice, every cell inside the grid and consecutive cells 4-neighbours;
\* a reset makes its length 3 and afterwards the length grows by one on
\* exactly the ticks on which food was eaten, and never changes otherwise.
C16_SnakeWellFormed ==
    /\ [](/\ Len(snake) >= 3
          /\ \A i, j \in 1..Len(snake) : i # j => snake[i] # snake[j]
          /\ \A i \in 1..Len(snake) : ~OutOfGrid(snake[i])
          /\ \A i \in 1..(Len(snake) - 1) :
                \/ /\ snake[i + 1][1] = snake[i][1]
                   /\ snake[i + 1][2] - snake[i][2] \in {1, 0 - 1}
                \/ /\ snake[i + 1][2] = snake[i][2]
                   /\ snake[i + 1][1] - snake[i][1] \in {1, 0 - 1})
    /\ [][IF ResetStep
          THEN Len(snake') = 3
          ELSE Len(snake') =
                  Len(snake) + (IF TickStep /\ AteFood THEN 1 ELSE 0)]_vars

\* A snake that ate three times and turned twice.
C16_Witness ==
    /\ state = PLAYING /\ Len(snake) = 6
    /\ snake[1][2] # snake[6][2] /\ snake[1][1] = snake[6][1]

\* C17: SPACE in Menu or GameOver starts a fresh game whatever the game
\* before was: state Playing, score 0, the snake (cx-2,cy),(cx-1,cy),(cx,cy),
\* direction and pending direction RIGHT, growth flag cleared, the normal
\* food on a cell off the snake and the special food absent or on such a
\* cell, the high score and its file unchanged; SPACE in Playing or Paused
\* changes neither the state nor the game.
C17_FreshGame ==
    [][KeyDown("K_SPACE") =>
          IF state \in {MENU, GAME_OVER}
          THEN /\ state' = PLAYING
               /\ score' = 0
               /\ snake' = <<<<GridWidth \div 2 - 2, GridHeight \div 2>>,
                             <<GridWidth \div 2 - 1, GridHeight \div 2>>,
                             <<GridWidth \div 2, GridHeight \div 2>>>>
               /\ direction' = "RIGHT" /\ next_direction' = "RIGHT"
               /\ growing' = FALSE
               /\ food_pos' \in Cells /\ food_pos' \notin Range(snake')
               /\ special_food_pos' # None =>
                     special_food_pos' \in Cells /\ special_food_pos' \notin Range(snake')
               /\ UNCHANGED <<high_score, high_score_file>>
          ELSE UNCHANGED <<state, score, snake, direction, next_direction,
                           growing, food_pos, special_food_pos,
                           special_food_timer, high_score, high_score_file>>]_vars

\* A game restarted after one that ended with a new high score of 20.
C17_Witness ==
    /\ pc = "events" /\ state = PLAYING /\ frame >= 3
    /\ high_score = 20 /\ score = 0 /\ Len(snake) = 3
    /\ snake[3] = <<GridWidth \div 2, GridHeight \div 2>>

\* C18: in every reachable state, between spawns too, the normal food and
\* the special food, when present, are on no cell of the snake.
C18_FoodOffSnake ==
    /\ food_pos # None => \A i \in 1..Len(snake) : snake[i] # food_pos
    /\ special_food_pos # None =>
          \A i \in 1..Len(snake) : snake[i] # special_food_pos

\* A snake that ate twice and moved on, both foods on the grid.
C18_Witness ==
    /\ pc = "events" /\ state = PLAYING /\ Len(snake) = 5 /\ frame >= 4
    /\ food_pos # None /\ special_food_pos # None
    /\ food_pos # special_food_pos

(***************************************************************************)
(* C19: the special food and its countdown.                                *)
(***************************************************************************)
\* C19: in every reachable state the special food is present exactly when
\* its countdown is above zero, and the countdown lies in 0..150; spawning,
\* eating either food, the expiry of the countdown and a reset keep it so.
C19_SpecialFoodAndTimer ==
    /\ special_food_pos # None <=> special_food_timer > 0
    /\ special_food_timer \in 0..SPECIAL_FOOD_LIFETIME

\* The spawn after a normal food was eaten placed a special food, one
\* frame ago.
C19_Witness ==
    /\ pc = "events" /\ state = PLAYING /\ score = FOOD_POINTS
    /\ special_food_pos # None
    /\ special_food_timer = SPECIAL_FOOD_LIFETIME - 1

(***************************************************************************)
(* C20: quitting.                                                          *)
(***************************************************************************)
\* C20 as stated: once a quit (ESC or window close) has been processed
\* nothing of the game is modified again: no later key of the frame is
\* dispatched, no tick runs, no GameOver transition or high-score write.
C20_NothingAfterQuit ==
    [][~running =>
          UNCHANGED <<state, score, snake, direction, next_direction, growing,
                      food_pos, high_score, high_score_file>>]_vars

\* C20 amended: a quit is never undone and ends the loop at the end of the
\* frame it arrived in: the redraw of that frame is followed by the exit,
\* no further frame begins, and after the exit nothing changes. (The keys
\* left in that frame and its tick still run.)
C20_QuitEndsAfterFrame ==
    [][/\ ~running => ~running'
       /\ (~running /\ pc = "draw") => pc' = "exited"
       /\ (~running /\ pc # "draw") => frame' = frame
       /\ pc # "exited"]_vars

\* The process has exited after its third frame with a game that ended, and
\* set the high score, in that frame: after the quit was processed.
C20_Witness ==
    /\ pc = "exited" /\ ~running /\ frame = 3
    /\ state = GAME_OVER /\ score = 20 /\ high_score = 20

(***************************************************************************)
(* C21: the full grid.                                                     *)
(***************************************************************************)
\* C21: when the food eaten on a tick makes the snake fill the grid, the
\* spawn of that tick leaves both foods absent with countdown 0 and the
\* state Playing (there is no win state); the next tick in Playing, whatever
\* its direction, ends in GameOver.
C21_FullGrid ==
    /\ [][(TickStep /\ AteNormalFood /\ Cardinality(Range(snake')) = GridWidth * GridHeight) =>
             /\ food_pos' = None
             /\ special_food_pos' = None
             /\ special_food_timer' = 0
             /\ state' = PLAYING]_vars
    /\ [][(TickStep /\ Cardinality(Range(snake)) = GridWidth * GridHeight) =>
             state' = GAME_OVER]_vars
    /\ [](state \in {MENU, PLAYING, PAUSED, GAME_OVER})

\* The game ended on the tick after the snake filled the grid.
C21_Witness ==
    /\ pc = "draw" /\ state = GAME_OVER
    /\ Cardinality(Range(snake)) = GridWidth * GridHeight
    /\ food_pos = None /\ special_food_pos = None

(***************************************************************************)
(* C22: a game left alone. The player steers for a few frames and then     *)
(* presses no key any more, while the loop keeps running.                  *)
(***************************************************************************)
\* The longest straight line of cells in the grid.
LongestRun == IF GridWidth > GridHeight THEN GridWidth ELSE GridHeight

\* The frames in which keys still arrive: the ones after them leave room
\* for the longest straight run.
KeyFrames == MaxFrames - LongestRun + 1

\* The keys of a game that walks the snake, one key per frame, from the
\* start into the left column without eating.
WalkKeys == <<"UP", "LEFT", "LEFT", "DOWN">>

RECURSIVE Walked(_)
\* The snake n ticks into that game.
Walked(n) ==
    IF n = 0
    THEN InitialSnake
    ELSE RemoveTail(Append(Walked(n - 1), NewHead(Walked(n - 1), WalkKeys[n])),
                    FALSE)

\* The cells the walk passes: a food on one of them would have been eaten.
WalkedCells == UNION {Range(Walked(n)) : n \in 0..Len(WalkKeys)}

\* A game n ticks into the walk, the foods of its reset still in place and
\* the countdown of the special food n frames down.
InitStraight ==
    /\ high_score_file = NoFile
    /\ state = PLAYING
    /\ high_score = LoadHighScore(high_score_file)
    /\ high_score_type = LoadedType(high_score_file)
    /\ fps = BASE_FPS
    /\ score = 0
    /\ growing = FALSE
    /\ \E n \in 0..Len(WalkKeys) :
          /\ snake = Walked(n)
          /\ direction = IF n = 0 THEN "RIGHT" ELSE WalkKeys[n]
          /\ next_direction = direction
          /\ \E o \in SpawnFood(InitialSnake) :
                /\ o.food \notin WalkedCells
                /\ o.special \notin WalkedCells
                /\ food_pos = o.food
                /\ special_food_pos = o.special
                /\ special_food_timer = IF o.special = None THEN 0 ELSE o.timer - n
    /\ running = TRUE
    /\ pc = "events"
    /\ frame = 0

\* A key pressed while the player still steers.
KeyDownEarly(key) == frame < KeyFrames /\ KeyDown(key)

\* The window closed while the player is still there.
QuitEventEarly == frame < KeyFrames /\ QuitEvent

NextStraight ==
    \/ \E key \in Keys : KeyDownEarly(key)
    \/ QuitEventEarly
    \/ Update
    \/ Draw

\* `while running` keeps taking the update and the redraw of every frame.
SpecStraight ==
    InitStraight /\ [][NextStraight]_vars /\ WF_vars(Update) /\ WF_vars(Draw)

\* C22: a game that is in Playing when the keys have stopped reaches
\* GameOver, and it does so within max(grid_width, grid_height) ticks of
\* the last key: after that many ticks no state is Playing any more.
C22_StraightRunEnds ==
    /\ (state = PLAYING /\ running /\ frame >= KeyFrames) ~> (state = GAME_OVER)
    /\ []((state = PLAYING /\ running) =>
             frame - (KeyFrames - 1) + (IF pc = "draw" THEN 1 ELSE 0) < LongestRun)

\* A run from the left column to the right wall that the last key started:
\* the game ended on the LongestRun-th tick after it, in the last frame, as
\* the countdown of the special food, which ran in every frame before the
\* game was over, shows.
C22_Witness ==
    /\ pc = "draw" /\ state = GAME_OVER
    /\ frame = KeyFrames - 1 + LongestRun - 1
    /\ direction = "RIGHT" /\ snake[Len(snake)][1] = GridWidth - 1
    /\ special_food_timer = SPECIAL_FOOD_LIFETIME - Len(WalkKeys) - frame

=============================================================================
